---- MODULE Spec2Model ----
(***************************************************************************)
(* State-machine model of server.js: the fixed-window rate limiter, the    *)
(* one-hour cache, the districts / performance tables of the storage       *)
(* layer, the HTTP handlers, the six-hourly refresh job and initDatabase.  *)
(*                                                                         *)
(* Conventions                                                             *)
(*  - Coordinates are integers in units of 1e-4 degree (16.7050 is         *)
(*    167050); every coordinate of the source has at most four decimals,   *)
(*    and DECIMAL(10,6) stores them exactly.                               *)
(*  - Math.sin and the haversine formula cannot be evaluated by TLC; they  *)
(*    are tabulated from IEEE-754 double evaluation of the source's        *)
(*    expressions (SinTable, HaversineTable).                              *)
(*  - Time is in milliseconds since the process epoch (Date.now()); the    *)
(*    calendar month (Date#getMonth, Date#getFullYear) is a separate pair  *)
(*    that rolls over at an instant of the clock.                          *)
(***************************************************************************)
EXTENDS Integers, Sequences, FiniteSets, Bags, TLC

\* ------------------------------------------------------------------ bounds
\* Times the clock advances in one behaviour.
MaxTicks == 1
\* Requests a client may send beyond RATE_LIMIT inside one window.
MaxOver == 1
\* Calendar years the generator is exercised on, starting at MinYear.
MaxGenYears == 2
\* Entries of the directory, from its first, that initDatabase is stepped over.
MaxSeeded == 2
\* Runs of the refresh job that may be in progress at once.
MaxJobs == 2
\* Cron firings, month boundaries and restarts in one behaviour, together.
MaxEvents == 2
\* Requests sent to the data routes in one behaviour.
MaxReqs == 2

\* ------------------------------------------------------- program constants
RATE_LIMIT == 100
WindowMs == 60000
MinYear == 2024
\* for (let i = 6; i >= 0; i--): the months the backfill reaches back.
BackfillMonths == 6
\* new NodeCache({ stdTTL: 3600 }), in seconds.
stdTTL == 3600
\* ORDER BY year DESC, month DESC LIMIT 7 of the trends query.
TrendLimit == 7
\* for (let i = 6; i >= 0; i--) of the trends fallback.
TrendMonths == 6
\* let minDistance = Infinity: above every distance of HaversineTable.
Infinity == 2147483647

\* The absent value (undefined / no entry); a record, so that it compares with
\* the records it stands in for.
None == [none |-> TRUE]

\* --------------------------------------------------------------- directory
MAHARASHTRA_DISTRICTS ==
  << [name |-> "Kolhapur", lat |-> 167050, lng |-> 742433, code |-> "KOL"],
     [name |-> "Mumbai Suburban", lat |-> 190760, lng |-> 728777, code |-> "MUM"],
     [name |-> "Pune", lat |-> 185204, lng |-> 738567, code |-> "PUN"],
     [name |-> "Nagpur", lat |-> 211458, lng |-> 790882, code |-> "NAG"],
     [name |-> "Nashik", lat |-> 199975, lng |-> 737898, code |-> "NAS"],
     [name |-> "Aurangabad", lat |-> 198762, lng |-> 753433, code |-> "AUR"],
     [name |-> "Solapur", lat |-> 176599, lng |-> 759064, code |-> "SOL"],
     [name |-> "Thane", lat |-> 192183, lng |-> 729781, code |-> "THA"],
     [name |-> "Ahmednagar", lat |-> 190948, lng |-> 747480, code |-> "AHM"],
     [name |-> "Satara", lat |-> 176805, lng |-> 739903, code |-> "SAT"],
     [name |-> "Sangli", lat |-> 168524, lng |-> 745815, code |-> "SAN"],
     [name |-> "Jalgaon", lat |-> 210077, lng |-> 755626, code |-> "JAL"],
     [name |-> "Amravati", lat |-> 209320, lng |-> 777523, code |-> "AMR"],
     [name |-> "Raigad", lat |-> 185204, lng |-> 730169, code |-> "RAI"],
     [name |-> "Ratnagiri", lat |-> 169902, lng |-> 733120, code |-> "RAT"] >>

\* A district code that no row of the directory carries.
UnknownCode == "UNKNOWNCODE"

DistrictCodes == {MAHARASHTRA_DISTRICTS[i].code : i \in 1..Len(MAHARASHTRA_DISTRICTS)}

\* ------------------------------------------------- synthetic data generator
\* String#charCodeAt(0) of the codes the model uses (UTF-16 code units).
CharCodeAt0(districtCode) ==
  CASE districtCode \in {"AUR", "AHM", "AMR"} -> 65
    [] districtCode = "JAL" -> 74
    [] districtCode = "KOL" -> 75
    [] districtCode = "MUM" -> 77
    [] districtCode \in {"NAG", "NAS"} -> 78
    [] districtCode = "PUN" -> 80
    [] districtCode \in {"RAI", "RAT"} -> 82
    [] districtCode \in {"SOL", "SAT", "SAN"} -> 83
    [] districtCode = "THA" -> 84
    [] districtCode = "UNKNOWNCODE" -> 85

\* Math.floor(Math.sin(seed * 9999) * 10000) in IEEE-754 double arithmetic,
\* for every seed the model can form.
SinTable ==
    2085 :> -9881 @@ 2086 :> 6645 @@ 2087 :> -375 @@ 2088 :> -6068 @@
    2089 :> 9737 @@ 2090 :> -8961 @@ 2091 :> 4090 @@ 2092 :> 2648 @@
    2093 :> -8178 @@ 2094 :> 9971 @@ 2095 :> -7211 @@ 2096 :> 1156 @@
    2097 :> 5425 @@ 2098 :> -9530 @@ 2099 :> 9280 @@ 2100 :> -4793 @@
    2101 :> -1885 @@ 2102 :> 7701 @@ 2103 :> -10000 @@ 2104 :> 7731 @@
    2105 :> -1932 @@ 2106 :> -4752 @@ 2107 :> 9263 @@ 2108 :> -9545 @@
    2109 :> 5465 @@ 2110 :> 1109 @@ 2111 :> -7178 @@ 2112 :> 9967 @@
    2113 :> -8205 @@ 2114 :> 2694 @@ 2115 :> 4046 @@ 2116 :> -8940 @@
    2117 :> 9748 @@ 2118 :> -6106 @@ 2119 :> -328 @@ 2120 :> 6609 @@
    2121 :> -9874 @@ 2122 :> 8627 @@ 2123 :> -3441 @@ 2124 :> -3318 @@
    2125 :> 8560 @@ 2126 :> -9894 @@ 2127 :> 6706 @@ 2128 :> -458 @@
    2129 :> -6002 @@ 2130 :> 9718

FloorSin(seed) == SinTable[seed]

\* The remainder operator of JavaScript: the result takes the sign of the
\* dividend (truncated division), unlike TLA+'s %.
JsRem(a, b) == IF a >= 0 THEN a % b ELSE -((-a) % b)

\* random(min, max) of generateDistrictData, for the seed's FloorSin value.
random(seed, min, max) == JsRem(FloorSin(seed), max - min) + min

generateDistrictData(districtCode, month, year) ==
  LET seed == CharCodeAt0(districtCode) + month + year
  IN [totalJobCards      |-> random(seed, 80000, 150000),
      activeWorkers      |-> random(seed, 40000, 90000),
      completedWorks     |-> random(seed, 150, 600),
      ongoingWorks       |-> random(seed, 50, 200),
      totalExpenditure   |-> random(seed, 80, 200),
      avgWagePaid        |-> random(seed, 250, 320),
      workDemand         |-> random(seed, 50000, 100000),
      workProvided       |-> random(seed, 45000, 95000),
      avgPaymentDays     |-> random(seed, 8, 18),
      womenParticipation |-> random(seed, 45, 65)]

\* The documented [min, max) range of each metric.
MetricRange ==
  [totalJobCards      |-> <<80000, 150000>>,
   activeWorkers      |-> <<40000, 90000>>,
   completedWorks     |-> <<150, 600>>,
   ongoingWorks       |-> <<50, 200>>,
   totalExpenditure   |-> <<80, 200>>,
   avgWagePaid        |-> <<250, 320>>,
   workDemand         |-> <<50000, 100000>>,
   workProvided       |-> <<45000, 95000>>,
   avgPaymentDays     |-> <<8, 18>>,
   womenParticipation |-> <<45, 65>>]

Metrics == DOMAIN MetricRange

\* ------------------------------------------------------------------- state
VARIABLES
  now,         \* Date.now(), ms
  ticks,       \* times the clock has advanced
  today,       \* [month, year]: getMonth() and getFullYear() of new Date()
  events,      \* cron firings, month boundaries and restarts so far
  rateLimit,   \* the rateLimit object: ip -> [count, resetTime]
  hist,        \* history: per ip, the window its latest request fell in
  resp,        \* the response to the latest request, None before the first
  nreq,        \* requests sent to the data routes
  cache,       \* the NodeCache: key -> [v, t], t the time the entry expires
  dbUp,        \* whether the storage layer answers queries
  tables,      \* the tables that exist
  districts,   \* rows of table districts, in heap order
  performance, \* rows of table performance, in heap order
  boot,        \* initDatabase and the process: [pc, i, k, rows, at]
  jobs,        \* the refresh job's runs: slot -> [pc, i, rows, at, ...]
  fullRuns,    \* history: refresh runs begun and ended in today's month
  gen          \* the latest call of generateDistrictData and its result

clockVars == <<now, ticks>>
calVars == <<today, events>>
rateVars == <<rateLimit, hist>>
dbVars == <<dbUp, tables, districts, performance>>
procVars == <<boot, jobs, fullRuns>>
httpVars == <<resp, nreq, cache>>
vars == <<clockVars, calVars, rateVars, httpVars, dbVars, procVars, gen>>

\* ----------------------------------------------------------- storage layer
\* new Date(year, month - i, 1): the month and year i months before `at`.
MonthsBack(at, i) ==
  LET t == at.year * 12 + at.month - i
  IN [month |-> t % 12, year |-> t \div 12]

\* CHECK (month >= 0 AND month <= 11) and CHECK (year >= 2024) of performance.
ChecksHold(month, year) == month >= 0 /\ month <= 11 /\ year >= MinYear

\* A query on table t succeeds: the store answers and the table exists.
QueryOk(t) == dbUp /\ t \in tables

HasDistrict(tbl, code) == \E i \in 1..Len(tbl) : tbl[i].code = code

\* Table performance is a bag of rows: no query of the program reads it in
\* heap order, and a bag can hold the same row twice.
SamePeriod(r, code, month, year) ==
  r.district_code = code /\ r.month = month /\ r.year = year

HasPeriod(tbl, code, month, year) ==
  \E r \in BagToSet(tbl) : SamePeriod(r, code, month, year)

\* Mutant: the INSERT INTO districts without its ON CONFLICT clause.
InsertDistrict_NoConflictClause(tbl, d) ==
  Append(tbl, [name |-> d.name, code |-> d.code, lat |-> d.lat, lng |-> d.lng,
               state |-> "Maharashtra"])

\* INSERT INTO districts (name, code, lat, lng) ... ON CONFLICT (code) DO NOTHING
InsertDistrict(tbl, d) ==
  IF HasDistrict(tbl, d.code) THEN tbl
  ELSE Append(tbl, [name |-> d.name, code |-> d.code, lat |-> d.lat,
                    lng |-> d.lng, state |-> "Maharashtra"])

\* Mutant: the row is stored under the month after the one its data is for.
PerformanceRow_NextMonth(code, month, year, data, t) ==
  [district_code |-> code, month |-> (month + 1) % 12, year |-> year,
   data |-> data, updated_at |-> t]

\* The row of an INSERT INTO performance. JSON.stringify(data) stored as JSONB
\* reads back as an object with the same keys and integer values.
PerformanceRow(code, month, year, data, t) ==
  [district_code |-> code, month |-> month, year |-> year, data |-> data,
   updated_at |-> t]

\* Mutant: the backfill's INSERT without its ON CONFLICT clause.
InsertPerformance_NoConflictClause(tbl, code, month, year, data, t) ==
  tbl (+) SetToBag({PerformanceRow(code, month, year, data, t)})

\* INSERT INTO performance ... ON CONFLICT (district_code, month, year) DO NOTHING
InsertPerformance(tbl, code, month, year, data, t) ==
  IF HasPeriod(tbl, code, month, year) THEN tbl
  ELSE tbl (+) SetToBag({PerformanceRow(code, month, year, data, t)})

\* Mutant: the refresh job's INSERT without its ON CONFLICT clause.
UpsertPerformance_PlainInsert(tbl, code, month, year, data, t) ==
  tbl (+) SetToBag({PerformanceRow(code, month, year, data, t)})

\* INSERT INTO performance ... ON CONFLICT (district_code, month, year)
\* DO UPDATE SET data = $4, updated_at = NOW()
UpsertPerformance(tbl, code, month, year, data, t) ==
  LET hit == {r \in BagToSet(tbl) : SamePeriod(r, code, month, year)}
      rest == [r \in BagToSet(tbl) \ hit |-> tbl[r]]
      n == BagCardinality([r \in hit |-> tbl[r]])
      row == PerformanceRow(code, month, year, data, t)
  IN IF hit = {} THEN tbl (+) SetToBag({row})
     ELSE rest (+) [r \in {row} |-> n]

\* SELECT code FROM districts (no ORDER BY: heap order).
SelectCodes(tbl) == [i \in 1..Len(tbl) |-> tbl[i].code]

\* ------------------------------------------------- process and initDatabase
JobIds == 1..MaxJobs

IdleJob == [pc |-> "idle", i |-> 0, rows |-> <<>>, at |-> None, begun |-> None,
            steady |-> FALSE, seen |-> 0]

\* initDatabase is entered; `seed` is the directory it iterates over.
\* `again` records that an earlier run of initDatabase ran to its end.
BootStart(seed, again) ==
  [pc |-> "create_districts", i |-> 1, k |-> 0, rows |-> <<>>, at |-> None,
   seed |-> seed, again |-> again]

\* Mutant: the catch block logs and returns, so initDatabase resolves.
BootExit_Resolves ==
  /\ boot' = [boot EXCEPT !.pc = "listening"]
  /\ jobs' = jobs

\* catch (error) { process.exit(1) }: the process and its callbacks end.
BootExit ==
  /\ boot' = [boot EXCEPT !.pc = "exited"]
  /\ jobs' = [j \in JobIds |-> IdleJob]

\* CREATE TABLE IF NOT EXISTS districts
BootCreateDistricts ==
  /\ boot.pc = "create_districts"
  /\ IF dbUp
       THEN /\ tables' = tables \cup {"districts"}
            /\ boot' = [boot EXCEPT !.pc = "create_performance"]
            /\ UNCHANGED jobs
       ELSE BootExit /\ UNCHANGED tables
  /\ UNCHANGED <<clockVars, calVars, rateVars, httpVars, dbUp, districts,
                 performance, fullRuns, gen>>

\* CREATE TABLE IF NOT EXISTS performance
BootCreatePerformance ==
  /\ boot.pc = "create_performance"
  /\ IF dbUp
       THEN /\ tables' = tables \cup {"performance"}
            /\ boot' = [boot EXCEPT !.pc = "seed", !.i = 1]
            /\ UNCHANGED jobs
       ELSE BootExit /\ UNCHANGED tables
  /\ UNCHANGED <<clockVars, calVars, rateVars, httpVars, dbUp, districts,
                 performance, fullRuns, gen>>

\* for (const district of MAHARASHTRA_DISTRICTS): one INSERT INTO districts.
BootSeed ==
  /\ boot.pc = "seed"
  /\ IF QueryOk("districts")
       THEN /\ districts' = InsertDistrict(districts, boot.seed[boot.i])
            /\ boot' = IF boot.i < Len(boot.seed)
                         THEN [boot EXCEPT !.i = @ + 1]
                         ELSE [boot EXCEPT !.pc = "select"]
            /\ UNCHANGED jobs
       ELSE BootExit /\ UNCHANGED districts
  /\ UNCHANGED <<clockVars, calVars, rateVars, httpVars, dbUp, tables,
                 performance, fullRuns, gen>>

\* const districts = await pool.query('SELECT code FROM districts'); with no
\* row the loops are skipped and initDatabase resolves: app.listen.
BootSelect ==
  /\ boot.pc = "select"
  /\ IF QueryOk("districts")
       THEN /\ LET rows == SelectCodes(districts)
               IN boot' = IF rows = <<>>
                            THEN [boot EXCEPT !.pc = "listening"]
                            ELSE [boot EXCEPT !.pc = "backfill", !.rows = rows,
                                              !.i = 1, !.k = BackfillMonths,
                                              !.at = today]
            /\ UNCHANGED jobs
       ELSE BootExit
  /\ UNCHANGED <<clockVars, calVars, rateVars, httpVars, dbVars, fullRuns,
                 gen>>

\* One INSERT INTO performance of the backfill: district boot.rows[boot.i],
\* boot.k months before boot.at; `now` is read anew for the next district.
BootBackfill ==
  /\ boot.pc = "backfill"
  /\ LET d == MonthsBack(boot.at, boot.k)
         code == boot.rows[boot.i]
     IN IF QueryOk("performance") /\ ChecksHold(d.month, d.year)
          THEN /\ performance' =
                    InsertPerformance(performance, code, d.month, d.year,
                        generateDistrictData(code, d.month, d.year), now)
               /\ boot' = IF boot.k > 0 THEN [boot EXCEPT !.k = @ - 1]
                          ELSE IF boot.i < Len(boot.rows)
                            THEN [boot EXCEPT !.i = @ + 1, !.k = BackfillMonths,
                                              !.at = today]
                          ELSE [boot EXCEPT !.pc = "listening"]
               /\ UNCHANGED jobs
          ELSE BootExit /\ UNCHANGED performance
  /\ UNCHANGED <<clockVars, calVars, rateVars, httpVars, dbUp, tables, districts,
                 fullRuns, gen>>

\* ------------------------------------------------------------- refresh job
\* The cron callback fires and its SELECT code FROM districts resolves. An
\* error is caught and logged; the run ends.
JobFire(j) ==
  /\ jobs[j].pc \in {"idle", "done"}
  /\ boot.pc # "exited"
  /\ events < MaxEvents
  /\ events' = events + 1
  /\ LET rows == SelectCodes(districts)
     IN jobs' = [jobs EXCEPT ![j] =
          IF QueryOk("districts") /\ rows # <<>>
            THEN [pc |-> "upsert", i |-> 1, rows |-> rows, at |-> today,
                  begun |-> today, steady |-> (boot.pc = "listening"),
                  seen |-> fullRuns]
            ELSE [IdleJob EXCEPT !.pc = "done"]]
  /\ UNCHANGED <<clockVars, today, rateVars, httpVars, dbVars, boot, fullRuns,
                 gen>>

\* One upsert of the run's loop; `now` is read anew for the next district.
JobUpsert(j) ==
  /\ jobs[j].pc = "upsert"
  /\ LET job == jobs[j]
         code == job.rows[job.i]
     IN IF QueryOk("performance") /\ ChecksHold(job.at.month, job.at.year)
          THEN /\ performance' =
                    UpsertPerformance(performance, code, job.at.month, job.at.year,
                        generateDistrictData(code, job.at.month, job.at.year), now)
               /\ IF job.i < Len(job.rows)
                    THEN /\ jobs' = [jobs EXCEPT ![j].i = @ + 1, ![j].at = today]
                         /\ UNCHANGED fullRuns
                    ELSE /\ jobs' = [jobs EXCEPT ![j].pc = "done"]
                         /\ fullRuns' = IF job.steady /\ job.begun = today
                                          THEN fullRuns + 1 ELSE fullRuns
          ELSE /\ jobs' = [jobs EXCEPT ![j].pc = "done"]
               /\ UNCHANGED <<performance, fullRuns>>
  /\ UNCHANGED <<clockVars, calVars, rateVars, httpVars, dbUp, tables, districts,
                 boot, gen>>

\* ------------------------------------------------------------- environment
\* The clock crosses a month boundary.
Rollover ==
  /\ events < MaxEvents
  /\ events' = events + 1
  /\ today' = MonthsBack(today, -1)
  /\ now' = now + 1
  /\ fullRuns' = 0
  /\ UNCHANGED <<ticks, rateVars, httpVars, dbVars, boot, jobs, gen>>

\* The process is started again: memory is fresh, the storage layer persists.
Restart ==
  /\ boot.pc \in {"listening", "exited"}
  /\ events < MaxEvents
  /\ events' = events + 1
  /\ boot' = BootStart(boot.seed, boot.again \/ boot.pc = "listening")
  /\ jobs' = [j \in JobIds |-> IdleJob]
  /\ rateLimit' = <<>>
  /\ hist' = <<>>
  /\ cache' = <<>>
  /\ UNCHANGED <<clockVars, today, resp, nreq, dbVars, fullRuns, gen>>

\* ------------------------------------------------------------ rate limiter
Clients == {"10.0.0.1", "10.0.0.2"}

\* Mutant: the limit test with > in place of >=.
rateLimiter_OffByOne(rl, ip, t) ==
  IF ip \notin DOMAIN rl
    THEN [rl |-> (ip :> [count |-> 1, resetTime |-> t + WindowMs]) @@ rl,
          allowed |-> TRUE]
  ELSE IF t > rl[ip].resetTime
    THEN [rl |-> [rl EXCEPT ![ip] = [count |-> 1, resetTime |-> t + WindowMs]],
          allowed |-> TRUE]
  ELSE IF rl[ip].count > RATE_LIMIT
    THEN [rl |-> rl, allowed |-> FALSE]
  ELSE [rl |-> [rl EXCEPT ![ip].count = @ + 1], allowed |-> TRUE]

\* Mutant: a denied request restarts the window's minute.
rateLimiter_DeniedExtends(rl, ip, t) ==
  IF ip \notin DOMAIN rl
    THEN [rl |-> (ip :> [count |-> 1, resetTime |-> t + WindowMs]) @@ rl,
          allowed |-> TRUE]
  ELSE IF t > rl[ip].resetTime
    THEN [rl |-> [rl EXCEPT ![ip] = [count |-> 1, resetTime |-> t + WindowMs]],
          allowed |-> TRUE]
  ELSE IF rl[ip].count >= RATE_LIMIT
    THEN [rl |-> [rl EXCEPT ![ip].resetTime = t + WindowMs], allowed |-> FALSE]
  ELSE [rl |-> [rl EXCEPT ![ip].count = @ + 1], allowed |-> TRUE]

\* rateLimiter (the middleware on /api/): the rateLimit object after a request
\* of ip at time t, and whether next() is reached.
rateLimiter(rl, ip, t) ==
  IF ip \notin DOMAIN rl
    THEN [rl |-> (ip :> [count |-> 1, resetTime |-> t + WindowMs]) @@ rl,
          allowed |-> TRUE]
  ELSE IF t > rl[ip].resetTime
    THEN [rl |-> [rl EXCEPT ![ip] = [count |-> 1, resetTime |-> t + WindowMs]],
          allowed |-> TRUE]
  ELSE IF rl[ip].count >= RATE_LIMIT
    THEN [rl |-> rl, allowed |-> FALSE]
  ELSE [rl |-> [rl EXCEPT ![ip].count = @ + 1], allowed |-> TRUE]

\* res.status(429).json({ error: 'Too many requests' })
TooManyRequests(ip, route, arg) ==
  [ip |-> ip, route |-> route, arg |-> arg, status |-> 429,
   body |-> [error |-> "Too many requests"]]

\* History of the windows as the contract counts them: a request later than
\* 60 s after the one that opened ip's window opens a new window, any other
\* request is one more request of the open window.
Observe(h, ip, t) ==
  IF ip \in DOMAIN h
    THEN IF t <= h[ip].opened + WindowMs
           THEN [h EXCEPT ![ip].n = @ + 1]
           ELSE [h EXCEPT ![ip] = [opened |-> t, n |-> 1]]
    ELSE (ip :> [opened |-> t, n |-> 1]) @@ h

\* Requests of ip the model still sends: a bound on the requests per window.
MaySend(ip) ==
  IF ip \notin DOMAIN hist THEN TRUE
  ELSE IF now > hist[ip].opened + WindowMs THEN TRUE
  ELSE hist[ip].n < RATE_LIMIT + MaxOver

\* ------------------------------------------------------------------- cache
TtlMs == stdTTL * 1000

DistrictsKey == [ns |-> "districts", code |-> ""]
PerfKey(districtCode) == [ns |-> "perf", code |-> districtCode]

\* Mutant: a cache whose get never expires an entry.
CacheHit_NoExpiry(c, key, t) == key \in DOMAIN c

\* cache.get(key) returns a value: the key is set and its entry has not
\* expired (node-cache expires an entry once its time is before Date.now()).
CacheHit(c, key, t) ==
  IF key \in DOMAIN c THEN ~(c[key].t < t) ELSE FALSE

\* The cache after cache.get(key): an expired entry is deleted by the get.
CacheGot(c, key, t) ==
  IF CacheHit(c, key, t) THEN c ELSE [k \in DOMAIN c \ {key} |-> c[k]]

\* cache.set(key, v) at time t, with the standard TTL.
CacheSet(c, key, v, t) ==
  [k \in DOMAIN c \cup {key} |->
     IF k = key THEN [v |-> v, t |-> t + TtlMs] ELSE c[k]]

\* ------------------------------------------------------- distance and scan
\* getDistance(lat1, lng1, lat2, lng2), in metres (Math.floor(1000 * km)), of
\* the haversine formula evaluated in IEEE-754 doubles, from each query point
\* of the model to each district of the directory. The rounding to metres
\* keeps the order and the one exact tie of the doubles.
HaversineTable ==
  <<185200, 738500>> :>
      (<<167050, 742433>> :> 206077 @@ <<190760, 728777>> :> 119571 @@ <<185204, 738567>> :> 707 @@
       <<211458, 790882>> :> 620774 @@ <<199975, 737898>> :> 164411 @@ <<198762, 753433>> :> 217554 @@
       <<176599, 759064>> :> 237465 @@ <<192183, 729781>> :> 120188 @@ <<190948, 747480>> :> 114102 @@
       <<176805, 739903>> :> 94518 @@ <<168524, 745815>> :> 200969 @@ <<210077, 755626>> :> 329589 @@
       <<209320, 777523>> :> 488594 @@ <<185204, 730169>> :> 87838 @@ <<169902, 733120>> :> 179392) @@
  <<185200, 734368>> :>
      (<<167050, 742433>> :> 219171 @@ <<190760, 728777>> :> 85357 @@ <<185204, 738567>> :> 44272 @@
       <<211458, 790882>> :> 659220 @@ <<199975, 737898>> :> 168417 @@ <<198762, 753433>> :> 250639 @@
       <<176599, 759064>> :> 277997 @@ <<192183, 729781>> :> 91424 @@ <<190948, 747480>> :> 152094 @@
       <<176805, 739903>> :> 110164 @@ <<168524, 745815>> :> 221559 @@ <<210077, 755626>> :> 354954 @@
       <<209320, 777523>> :> 525275 @@ <<185204, 730169>> :> 44272 @@ <<169902, 733120>> :> 170618) @@
  <<169000, 744000>> :>
      (<<167050, 742433>> :> 27356 @@ <<190760, 728777>> :> 290621 @@ <<185204, 738567>> :> 189146 @@
       <<211458, 790882>> :> 682356 @@ <<199975, 737898>> :> 350386 @@ <<198762, 753433>> :> 345578 @@
       <<176599, 759064>> :> 180889 @@ <<192183, 729781>> :> 298402 @@ <<190948, 747480>> :> 246809 @@
       <<176805, 739903>> :> 97077 @@ <<168524, 745815>> :> 20024 @@ <<210077, 755626>> :> 472827 @@
       <<209320, 777523>> :> 570333 @@ <<185204, 730169>> :> 232221 @@ <<169902, 733120>> :> 116161)

getDistance(lat1, lng1, lat2, lng2) == HaversineTable[<<lat1, lng1>>][<<lat2, lng2>>]

\* Mutant: the scan's test with <= in place of <.
Closer_OrEqual(distance, minDistance) == distance <= minDistance

\* if (distance < minDistance)
Closer(distance, minDistance) == distance < minDistance

\* for (const district of districts) { ... }: the scan from entry i on, with
\* nearestDistrict and minDistance so far.
RECURSIVE NearestFrom(_, _, _, _, _, _)
NearestFrom(list, i, lat, lng, nearestDistrict, minDistance) ==
  IF i > Len(list) THEN nearestDistrict
  ELSE LET distance == getDistance(lat, lng, list[i].lat, list[i].lng)
       IN IF Closer(distance, minDistance)
            THEN NearestFrom(list, i + 1, lat, lng, list[i], distance)
            ELSE NearestFrom(list, i + 1, lat, lng, nearestDistrict, minDistance)

\* let nearestDistrict = null; let minDistance = Infinity; and the scan.
Nearest(list, lat, lng) == NearestFrom(list, 1, lat, lng, None, Infinity)

\* ----------------------------------------------------------------- queries
\* The columns name, code, lat, lng of a row of districts.
DistrictColumns(r) ==
  [name |-> r.name, code |-> r.code, lat |-> r.lat, lng |-> r.lng]

\* SELECT name, code, lat, lng FROM districts (heap order)
SelectDistricts(tbl) == [i \in 1..Len(tbl) |-> DistrictColumns(tbl[i])]

\* The place of a district name in the ascending order of the names.
NameRank(name) ==
  CASE name = "Ahmednagar" -> 1 [] name = "Amravati" -> 2
    [] name = "Aurangabad" -> 3 [] name = "Jalgaon" -> 4
    [] name = "Kolhapur" -> 5 [] name = "Mumbai Suburban" -> 6
    [] name = "Nagpur" -> 7 [] name = "Nashik" -> 8
    [] name = "Pune" -> 9 [] name = "Raigad" -> 10
    [] name = "Ratnagiri" -> 11 [] name = "Sangli" -> 12
    [] name = "Satara" -> 13 [] name = "Solapur" -> 14
    [] name = "Thane" -> 15

\* SELECT name, code, lat, lng FROM districts ORDER BY name
SelectDistrictsByName(tbl) ==
  LET idx == 1..Len(tbl)
      \* the place of row i: after the rows of smaller name, and after the
      \* rows of the same name earlier in the heap
      place == [i \in idx |->
                 1 + Cardinality({j \in idx :
                       \/ NameRank(tbl[j].name) < NameRank(tbl[i].name)
                       \/ NameRank(tbl[j].name) = NameRank(tbl[i].name) /\ j < i})]
  IN [p \in idx |-> DistrictColumns(tbl[CHOOSE i \in idx : place[i] = p])]

\* Whether period (y1, m1) is later than (y2, m2).
Later(y1, m1, y2, m2) == y1 > y2 \/ (y1 = y2 /\ m1 > m2)

\* SELECT data FROM performance WHERE district_code = $1
\* ORDER BY year DESC, month DESC LIMIT 1
SelectLatestData(tbl, districtCode) ==
  LET own == {r \in BagToSet(tbl) : r.district_code = districtCode}
  IN IF own = {} THEN <<>>
     ELSE << [data |-> (CHOOSE r \in own :
                          \A q \in own : ~Later(q.year, q.month, r.year, r.month)).data] >>

\* ---------------------------------------------------------------- handlers
ApiClients == {"10.0.0.1"}

\* The request bodies of POST /api/location-to-district the model sends: a
\* record with the fields the body has.
Bodies ==
  { [lat |-> 185200, lng |-> 738500],
    [lat |-> 185200, lng |-> 734368],
    [lat |-> 169000, lng |-> 744000],
    [lat |-> 0, lng |-> 738500],
    [lng |-> 738500],
    [lat |-> 185200] }

ApiCodes == {"KOL", UnknownCode}

\* app.get('/api/health'): the route's handler.
healthRoute ==
  [status |-> 200, body |-> [status |-> "ok", timestamp |-> now], cache |-> cache]

\* Mutant: the fallback of the catch of /api/districts is an empty list.
DistrictsOnError_Empty == <<>>

\* res.json(MAHARASHTRA_DISTRICTS) of the catch of /api/districts
DistrictsOnError == MAHARASHTRA_DISTRICTS

\* Mutant: the catch of /api/districts caches the list it answers with.
districtsRoute_CachesFallback ==
  IF CacheHit(cache, DistrictsKey, now)
    THEN [status |-> 200, body |-> cache[DistrictsKey].v, cache |-> cache]
  ELSE IF QueryOk("districts")
    THEN LET rows == SelectDistrictsByName(districts)
             list == IF Len(rows) > 0 THEN rows ELSE MAHARASHTRA_DISTRICTS
         IN [status |-> 200, body |-> list,
             cache |-> CacheSet(cache, DistrictsKey, list, now)]
  ELSE [status |-> 200, body |-> DistrictsOnError,
        cache |-> CacheSet(cache, DistrictsKey, DistrictsOnError, now)]

\* app.get('/api/districts')
districtsRoute ==
  IF CacheHit(cache, DistrictsKey, now)
    THEN [status |-> 200, body |-> cache[DistrictsKey].v, cache |-> cache]
  ELSE IF QueryOk("districts")
    THEN LET rows == SelectDistrictsByName(districts)
             list == IF Len(rows) > 0 THEN rows ELSE MAHARASHTRA_DISTRICTS
         IN [status |-> 200, body |-> list,
             cache |-> CacheSet(cache, DistrictsKey, list, now)]
  ELSE [status |-> 200, body |-> DistrictsOnError,
        cache |-> CacheGot(cache, DistrictsKey, now)]

\* !lat, !lng: the field is absent or is the number 0.
Falsy(body, f) == IF f \in DOMAIN body THEN body[f] = 0 ELSE TRUE

\* app.post('/api/location-to-district')
locationRoute(body) ==
  IF Falsy(body, "lat") \/ Falsy(body, "lng")
    THEN [status |-> 400, body |-> [error |-> "Latitude and longitude required"],
          cache |-> cache]
  ELSE IF CacheHit(cache, DistrictsKey, now)
    THEN [status |-> 200,
          body |-> [district |-> Nearest(cache[DistrictsKey].v, body.lat, body.lng)],
          cache |-> cache]
  ELSE IF QueryOk("districts")
    THEN LET rows == SelectDistricts(districts)
             list == IF Len(rows) > 0 THEN rows ELSE MAHARASHTRA_DISTRICTS
         IN [status |-> 200,
             body |-> [district |-> Nearest(list, body.lat, body.lng)],
             cache |-> CacheSet(cache, DistrictsKey, list, now)]
  ELSE [status |-> 500, body |-> [error |-> "Location lookup failed"],
        cache |-> CacheGot(cache, DistrictsKey, now)]

\* Mutant: the catch of /api/performance answers 500, as that of /api/trends.
PerformanceOnError_500(districtCode) ==
  [status |-> 500, body |-> [error |-> "Failed to fetch performance"]]

\* The catch of /api/performance: generated data for the current month.
PerformanceOnError(districtCode) ==
  [status |-> 200,
   body |-> generateDistrictData(districtCode, today.month, today.year)]

\* app.get('/api/performance/:districtCode')
performanceRoute(districtCode) ==
  LET cacheKey == PerfKey(districtCode)
  IN IF CacheHit(cache, cacheKey, now)
       THEN [status |-> 200, body |-> cache[cacheKey].v, cache |-> cache]
     ELSE IF QueryOk("performance")
       THEN LET rows == SelectLatestData(performance, districtCode)
                data == IF Len(rows) > 0 THEN rows[1].data
                        ELSE generateDistrictData(districtCode, today.month,
                                                  today.year)
            IN [status |-> 200, body |-> data,
                cache |-> CacheSet(cache, cacheKey, data, now)]
     ELSE [status |-> PerformanceOnError(districtCode).status,
           body |-> PerformanceOnError(districtCode).body,
           cache |-> CacheGot(cache, cacheKey, now)]

\* A request of ip to a route of /api/: the middleware, then the handler,
\* whose outcome is `out`.
Serve(ip, route, arg, out) ==
  /\ boot.pc = "listening"
  /\ LET rl == rateLimiter(rateLimit, ip, now)
     IN /\ rateLimit' = rl.rl
        /\ IF rl.allowed
             THEN /\ resp' = [ip |-> ip, route |-> route, arg |-> arg,
                              status |-> out.status, body |-> out.body]
                  /\ cache' = out.cache
             ELSE /\ resp' = TooManyRequests(ip, route, arg)
                  /\ cache' = cache
  /\ hist' = Observe(hist, ip, now)
  /\ UNCHANGED <<clockVars, calVars, dbVars, procVars, gen>>

\* Mutant: /api/health registered before the rate limiter.
Health_Unlimited(ip) ==
  /\ MaySend(ip)
  /\ boot.pc = "listening"
  /\ resp' = [ip |-> ip, route |-> "health", arg |-> None,
              status |-> healthRoute.status, body |-> healthRoute.body]
  /\ rateLimit' = rateLimiter(rateLimit, ip, now).rl
  /\ hist' = Observe(hist, ip, now)
  /\ UNCHANGED <<clockVars, calVars, dbVars, procVars, gen, nreq, cache>>

\* GET /api/health
Health(ip) ==
  /\ MaySend(ip)
  /\ Serve(ip, "health", None, healthRoute)
  /\ UNCHANGED nreq

\* GET /api/districts
GetDistricts(ip) ==
  /\ nreq < MaxReqs
  /\ nreq' = nreq + 1
  /\ Serve(ip, "districts", None, districtsRoute)

\* POST /api/location-to-district with JSON body `body`
PostLocation(ip, body) ==
  /\ nreq < MaxReqs
  /\ nreq' = nreq + 1
  /\ Serve(ip, "location", body, locationRoute(body))

\* GET /api/performance/:districtCode
GetPerformance(ip, districtCode) ==
  /\ nreq < MaxReqs
  /\ nreq' = nreq + 1
  /\ Serve(ip, "performance", [districtCode |-> districtCode],
           performanceRoute(districtCode))

\* --------------------------------------------------------------- trends
TrendsKey(districtCode) == [ns |-> "trends", code |-> districtCode]

\* const monthNames = [...]; toLocaleString('default', { month: 'short' }) of
\* the stored branch gives the same names in the en-US locale of the server.
monthNames ==
  <<"Jan", "Feb", "Mar", "Apr", "May", "Jun", "Jul", "Aug", "Sep", "Oct", "Nov",
    "Dec">>

\* The entry of the response for period (month, year) with record `data`.
TrendEntry(month, year, data) ==
  [month |-> monthNames[month + 1], year |-> year,
   workers |-> data.activeWorkers, expenditure |-> data.totalExpenditure,
   works |-> data.completedWorks]

\* SELECT month, year, data FROM performance WHERE district_code = $1
\* ORDER BY year DESC, month DESC LIMIT 7. The periods of a code's rows are
\* distinct by UNIQUE(district_code, month, year).
SelectTrendRows(tbl, districtCode) ==
  LET own == {r \in BagToSet(tbl) : r.district_code = districtCode}
      \* the place of row r in the descending order
      place(r) == 1 + Cardinality({q \in own :
                                     Later(q.year, q.month, r.year, r.month)})
      n == IF Cardinality(own) < TrendLimit THEN Cardinality(own) ELSE TrendLimit
  IN [p \in 1..n |-> CHOOSE r \in own : place(r) = p]

\* Mutant: the map without its reverse().
StoredTrends_NotReversed(rows) ==
  [p \in 1..Len(rows) |-> TrendEntry(rows[p].month, rows[p].year, rows[p].data)]

\* result.rows.map(...).reverse()
StoredTrends(rows) ==
  [p \in 1..Len(rows) |->
     LET row == rows[Len(rows) + 1 - p]
     IN TrendEntry(row.month, row.year, row.data)]

\* The fallback loop: trends.push for i = 6 down to 0.
SyntheticTrends(districtCode, at) ==
  [p \in 1..(TrendMonths + 1) |->
     LET d == MonthsBack(at, TrendMonths + 1 - p)
     IN TrendEntry(d.month, d.year,
                   generateDistrictData(districtCode, d.month, d.year))]

\* Mutant: the catch of /api/trends answers with generated entries, as that
\* of /api/performance does.
TrendsOnError_Synthetic(districtCode) ==
  [status |-> 200, body |-> SyntheticTrends(districtCode, today)]

\* The catch of /api/trends.
TrendsOnError(districtCode) ==
  [status |-> 500, body |-> [error |-> "Failed to fetch trends"]]

\* app.get('/api/trends/:districtCode')
trendsRoute(districtCode) ==
  LET cacheKey == TrendsKey(districtCode)
  IN IF CacheHit(cache, cacheKey, now)
       THEN [status |-> 200, body |-> cache[cacheKey].v, cache |-> cache]
     ELSE IF QueryOk("performance")
       THEN LET rows == SelectTrendRows(performance, districtCode)
                trends == IF Len(rows) >= 1 THEN StoredTrends(rows)
                          ELSE SyntheticTrends(districtCode, today)
            IN [status |-> 200, body |-> trends,
                cache |-> CacheSet(cache, cacheKey, trends, now)]
     ELSE [status |-> TrendsOnError(districtCode).status,
           body |-> TrendsOnError(districtCode).body,
           cache |-> CacheGot(cache, cacheKey, now)]

\* GET /api/trends/:districtCode
GetTrends(ip, districtCode) ==
  /\ nreq < MaxReqs
  /\ nreq' = nreq + 1
  /\ Serve(ip, "trends", [districtCode |-> districtCode],
           trendsRoute(districtCode))

\* The performance table after the upsert loop of the cron callback run on
\* from district st.i, in month `at` at time t.
RECURSIVE Refreshed(_, _, _, _)
Refreshed(st, rows, at, t) ==
  IF st.i > Len(rows) THEN st.tbl
  ELSE Refreshed(
         [tbl |-> UpsertPerformance(st.tbl, rows[st.i], at.month, at.year,
                    generateDistrictData(rows[st.i], at.month, at.year), t),
          i |-> st.i + 1],
         rows, at, t)

\* A run of the cron callback from its start to its end, with no other step
\* in between; a query that fails ends it with nothing written.
Refresh ==
  /\ boot.pc = "listening"
  /\ events < MaxEvents
  /\ events' = events + 1
  /\ performance' =
       IF QueryOk("districts") /\ QueryOk("performance")
            /\ ChecksHold(today.month, today.year)
         THEN Refreshed([tbl |-> performance, i |-> 1], SelectCodes(districts),
                        today, now)
         ELSE performance
  /\ UNCHANGED <<clockVars, today, rateVars, httpVars, dbUp, tables, districts,
                 procVars, gen>>

\* The clock advances by d ms.
Tick(d) ==
  /\ ticks < MaxTicks
  /\ ticks' = ticks + 1
  /\ now' = now + d
  /\ UNCHANGED <<calVars, rateVars, httpVars, dbVars, procVars, gen>>

\* The clock passes the end of the month: one of the advances of the clock.
MonthEnds ==
  /\ ticks < MaxTicks
  /\ ticks' = ticks + 1
  /\ now' = now + 1
  /\ today' = MonthsBack(today, -1)
  /\ fullRuns' = 0
  /\ UNCHANGED <<events, rateVars, httpVars, dbVars, boot, jobs, gen>>

\* The clock advances by d ms and passes the end of the month on the way.
TickOverMonth(d) ==
  /\ ticks < MaxTicks
  /\ ticks' = ticks + 1
  /\ now' = now + d
  /\ today' = MonthsBack(today, -1)
  /\ fullRuns' = 0
  /\ UNCHANGED <<events, rateVars, httpVars, dbVars, boot, jobs, gen>>

\* The storage layer stops answering, and answers again.
DbDown ==
  /\ dbUp
  /\ dbUp' = FALSE
  /\ UNCHANGED <<clockVars, calVars, rateVars, httpVars, tables, districts,
                 performance, procVars, gen>>

DbUp ==
  /\ ~dbUp
  /\ dbUp' = TRUE
  /\ UNCHANGED <<clockVars, calVars, rateVars, httpVars, tables, districts,
                 performance, procVars, gen>>

\* The first start of the process, on a storage layer with no table.
InitToday == [month |-> 1, year |-> 2026]

InitStart ==
  /\ now = 0
  /\ ticks = 0
  /\ today = InitToday
  /\ events = 0
  /\ rateLimit = <<>>
  /\ hist = <<>>
  /\ resp = None
  /\ nreq = 0
  /\ cache = <<>>
  /\ dbUp = TRUE
  /\ tables = {}
  /\ districts = <<>>
  /\ performance = EmptyBag
  /\ boot = BootStart(SubSeq(MAHARASHTRA_DISTRICTS, 1, MaxSeeded), FALSE)
  /\ jobs = [j \in JobIds |-> IdleJob]
  /\ fullRuns = 0
  /\ gen = None

NextStore ==
  \/ BootCreateDistricts
  \/ BootCreatePerformance
  \/ BootSeed
  \/ BootSelect
  \/ BootBackfill
  \/ \E j \in JobIds : JobFire(j)
  \/ \E j \in JobIds : JobUpsert(j)
  \/ Rollover
  \/ Restart

SpecStore == InitStart /\ [][NextStore]_vars

\* ------------------------------------------------- the state of a served API
\* The districts table after the seeding loop of initDatabase from entry i on.
RECURSIVE Seeded(_, _, _)
Seeded(tbl, seed, i) ==
  IF i > Len(seed) THEN tbl
  ELSE Seeded(InsertDistrict(tbl, seed[i]), seed, i + 1)

\* The performance table after the backfill loops of initDatabase run on from
\* loop state st (the table, the district i and the months back k reached);
\* every `now` is the month `at`, at time t.
RECURSIVE Backfilled(_, _, _, _)
Backfilled(st, rows, at, t) ==
  IF st.i > Len(rows) THEN st.tbl
  ELSE LET d == MonthsBack(at, st.k)
       IN Backfilled(
            [tbl |-> InsertPerformance(st.tbl, rows[st.i], d.month, d.year,
                       generateDistrictData(rows[st.i], d.month, d.year), t),
             i |-> IF st.k > 0 THEN st.i ELSE st.i + 1,
             k |-> IF st.k > 0 THEN st.k - 1 ELSE BackfillMonths],
            rows, at, t)

\* initDatabase has run over directory `seed` on an empty storage layer in
\* month InitToday at time 0, and app.listen was called.
InitServing(seed) ==
  /\ now = 0
  /\ ticks = 0
  /\ today = InitToday
  /\ events = 0
  /\ resp = None
  /\ nreq = 0
  /\ cache = <<>>
  /\ dbUp = TRUE
  /\ tables = {"districts", "performance"}
  /\ districts = Seeded(<<>>, seed, 1)
  /\ performance = Backfilled([tbl |-> EmptyBag, i |-> 1, k |-> BackfillMonths],
                              SelectCodes(Seeded(<<>>, seed, 1)), InitToday, 0)
  /\ boot = [BootStart(seed, FALSE) EXCEPT !.pc = "listening"]
  /\ jobs = [j \in JobIds |-> IdleJob]
  /\ fullRuns = 0
  /\ gen = None

\* ---------------------------------------------- rate-limiter specification
InitRate ==
  /\ InitServing(SubSeq(MAHARASHTRA_DISTRICTS, 1, MaxSeeded))
  /\ rateLimit = <<>>
  /\ hist = <<>>

\* The clock reaches a window's reset time exactly, or passes it.
RateTicks == {WindowMs, WindowMs + 1}

NextRate ==
  \/ \E ip \in Clients : Health(ip)
  \/ \E d \in RateTicks : Tick(d)

SpecRate == InitRate /\ [][NextRate]_vars

\* ------------------------------------------------ generator specification
GenCodes == DistrictCodes \cup {UnknownCode}
GenYears == MinYear..(MinYear + MaxGenYears)

\* A call generateDistrictData(districtCode, month, year).
Generate(districtCode, month, year) ==
  /\ gen' = [districtCode |-> districtCode, month |-> month, year |-> year,
             data |-> generateDistrictData(districtCode, month, year)]
  /\ UNCHANGED <<clockVars, calVars, rateVars, httpVars, dbVars, procVars>>

NextGen == \E c \in GenCodes, m \in 0..11, y \in GenYears : Generate(c, m, y)

SpecGen == InitRate /\ [][NextGen]_vars

\* ---------------------------------------------------- the API specification
\* The server listens after initDatabase over the whole directory; the client
\* has sent no request yet, or has sent RATE_LIMIT - 1 health requests at
\* time 0.
InitApi ==
  /\ InitServing(MAHARASHTRA_DISTRICTS)
  /\ \/ rateLimit = <<>> /\ hist = <<>>
     \/ \E ip \in ApiClients :
          /\ rateLimit = (ip :> [count |-> RATE_LIMIT - 1, resetTime |-> WindowMs])
          /\ hist = (ip :> [opened |-> 0, n |-> RATE_LIMIT - 1])

\* The clock reaches a cache entry's expiry time exactly, or passes it.
ApiTicks == {TtlMs, TtlMs + 1}

Next ==
  \/ \E ip \in ApiClients : GetDistricts(ip)
  \/ \E ip \in ApiClients, body \in Bodies : PostLocation(ip, body)
  \/ \E ip \in ApiClients, c \in ApiCodes : GetPerformance(ip, c)
  \/ \E d \in ApiTicks : Tick(d)
  \/ MonthEnds
  \/ DbDown
  \/ DbUp

Spec == InitApi /\ [][Next]_vars


\* ------------------------------------------- the trends and cache specification
\* The routes that read table performance, the cache's clock, and runs of the
\* refresh job between requests, on the directory cut to MaxSeeded entries.
\* The month ends within the hour of a cache entry, or after it.
MonthTicks == {1, TtlMs + 1}

NextTrends ==
  \/ \E ip \in ApiClients, c \in ApiCodes : GetTrends(ip, c)
  \/ \E ip \in ApiClients, c \in ApiCodes : GetPerformance(ip, c)
  \/ \E d \in ApiTicks : Tick(d)
  \/ \E d \in MonthTicks : TickOverMonth(d)
  \/ Refresh
  \/ DbDown
  \/ DbUp

SpecTrends == InitRate /\ [][NextTrends]_vars

\* ------------------------------------------------- the cache specification
\* The three routes that answer from the cache, the clock and the refresh
\* job, on a storage layer that stays reachable.
NextCache ==
  \/ \E ip \in ApiClients : GetDistricts(ip)
  \/ \E ip \in ApiClients, c \in ApiCodes : GetPerformance(ip, c)
  \/ \E ip \in ApiClients, c \in ApiCodes : GetTrends(ip, c)
  \/ \E d \in ApiTicks : Tick(d)
  \/ \E d \in MonthTicks : TickOverMonth(d)
  \/ Refresh

SpecCache == InitRate /\ [][NextCache]_vars

\* ------------------------------------------- first start, storage may fail
\* The first start of the process while the storage layer may stop answering
\* at any point: initDatabase, cron callbacks, and requests once listening.
NextProc ==
  \/ BootCreateDistricts
  \/ BootCreatePerformance
  \/ BootSeed
  \/ BootSelect
  \/ BootBackfill
  \/ \E j \in JobIds : JobFire(j)
  \/ \E j \in JobIds : JobUpsert(j)
  \/ \E ip \in ApiClients : GetDistricts(ip)
  \/ DbDown
  \/ DbUp

SpecProc == InitStart /\ [][NextProc]_vars

\* ------------------------------------------------------ rate-limiter claims
\* C1: for each client on its own, the 1st to the 100th request of a 60 s
\* window are allowed, the 101st and every later one of the window is denied
\* with 429, and the first request after the window's reset time is allowed
\* and opens a window with count 1.
C1_FixedWindow ==
  resp # None =>
    LET h == hist[resp.ip]
    IN /\ h.n <= RATE_LIMIT => resp.status # 429
       /\ h.n > RATE_LIMIT => resp.status = 429
       /\ h.n = 1 => rateLimit[resp.ip].count = 1

\* The 101st request of a client is denied while another client is under
\* the limit.
C1_Witness ==
  /\ resp # None
  /\ resp.status = 429
  /\ hist[resp.ip].n = RATE_LIMIT + 1
  /\ \E ip \in DOMAIN hist : ip # resp.ip /\ hist[ip].n < RATE_LIMIT

\* C2 as stated: every health request is answered 200 with {status, timestamp}.
C2_HealthAlways200 ==
  resp # None =>
    (resp.route = "health" =>
       resp.status = 200 /\ DOMAIN resp.body = {"status", "timestamp"})

\* C2: a health request that the rate limiter admits (one of the first 100 of
\* its client's window) is answered 200 with {status: 'ok', timestamp}; a
\* health request over the limit is answered 429.
C2_HealthAdmitted ==
  resp # None =>
    (resp.route = "health" =>
       IF hist[resp.ip].n <= RATE_LIMIT
         THEN /\ resp.status = 200
              /\ DOMAIN resp.body = {"status", "timestamp"}
              /\ resp.body.status = "ok"
              /\ resp.body.timestamp <= now
         ELSE resp.status = 429)

\* The 100th health request of a window is answered 200, after a window of
\* the same client has closed.
C2_Witness ==
  /\ resp # None
  /\ resp.route = "health"
  /\ resp.status = 200
  /\ hist[resp.ip].n = RATE_LIMIT
  /\ hist[resp.ip].opened > 0

\* C17: every entry of rateLimit has a count from 1 to 100 and a resetTime
\* 60000 ms after the request that opened its window; a request answered 429
\* leaves rateLimit as it was, so it does not extend the window.
C17_EntryInvariant ==
  [][/\ \A ip \in DOMAIN rateLimit' :
          /\ rateLimit'[ip].count \in 1..RATE_LIMIT
          /\ rateLimit'[ip].resetTime = hist'[ip].opened + WindowMs
     /\ IF hist' # hist
          THEN resp'.status = 429 => rateLimit' = rateLimit
          ELSE TRUE]_vars

\* A request at the very reset time of a full window was denied, and the
\* window still ends at that time.
C17_Witness ==
  /\ resp # None
  /\ resp.status = 429
  /\ now > 0
  /\ rateLimit[resp.ip].count = RATE_LIMIT
  /\ rateLimit[resp.ip].resetTime = now

\* --------------------------------------------------------- generator claims
\* C10: every metric of generateDistrictData(districtCode, month, year) lies
\* in its half-open range [min, max).
C10_MetricsInRange ==
  gen # None =>
    \A k \in Metrics :
      gen.data[k] >= MetricRange[k][1] /\ gen.data[k] < MetricRange[k][2]

\* --------------------------------------------------------------- API claims
\* The step is a request to `route` that the rate limiter admitted.
Admitted(route) ==
  IF nreq' = nreq + 1
    THEN resp'.route = route /\ resp'.status # 429
    ELSE FALSE

\* The storage layer is unreachable, or its districts table has no row.
EmptyOrUnreachable == IF QueryOk("districts") THEN Len(districts) = 0 ELSE TRUE

\* C3 as stated: a districts request on an empty or unreachable storage layer
\* is answered with the static list in its order, whatever was cached before.
C3_FallbackWhenUnreachable ==
  [][Admitted("districts") /\ EmptyOrUnreachable
       => resp'.status = 200 /\ resp'.body = MAHARASHTRA_DISTRICTS]_vars

\* C3: a districts request is answered 200; with a live 'districts' cache
\* entry the answer is the cached list, and without one, on an empty or
\* unreachable storage layer, it is the static list in its defined order.
C3_FallbackOnMiss ==
  [][Admitted("districts")
       => /\ resp'.status = 200
          /\ IF CacheHit(cache, DistrictsKey, now)
               THEN resp'.body = cache[DistrictsKey].v
               ELSE EmptyOrUnreachable => resp'.body = MAHARASHTRA_DISTRICTS]_vars

\* The static list was served from an unreachable storage layer after the
\* cache entry of an earlier request had expired.
C3_Witness ==
  /\ resp # None
  /\ resp.route = "districts"
  /\ resp.status = 200
  /\ resp.body = MAHARASHTRA_DISTRICTS
  /\ ~dbUp
  /\ nreq = 2
  /\ now >= TtlMs

\* The code has no stored record, or the query fails.
NoRecordOrFailure(districtCode) ==
  IF QueryOk("performance")
    THEN SelectLatestData(performance, districtCode) = <<>>
    ELSE TRUE

\* C4 as stated: a performance request is never answered 500; an admitted one
\* gets 200 with all ten metrics, and the record generated for the current
\* month when the code has no stored record or the query fails.
C4_SyntheticForCurrentPeriod ==
  [][Admitted("performance")
       => /\ resp'.status = 200
          /\ DOMAIN resp'.body = Metrics
          /\ NoRecordOrFailure(resp'.arg.districtCode)
               => resp'.body = generateDistrictData(resp'.arg.districtCode,
                                                    today.month, today.year)]_vars

\* C4: an admitted performance request gets 200 with all ten metrics; with a
\* live cache entry for the code the record is the cached one, and without
\* one, when the code has no stored record or the query fails, it is the
\* record generated for the current month.
C4_SyntheticOnMiss ==
  [][Admitted("performance")
       => /\ resp'.status = 200
          /\ DOMAIN resp'.body = Metrics
          /\ IF CacheHit(cache, PerfKey(resp'.arg.districtCode), now)
               THEN resp'.body = cache[PerfKey(resp'.arg.districtCode)].v
               ELSE NoRecordOrFailure(resp'.arg.districtCode)
                      => resp'.body = generateDistrictData(resp'.arg.districtCode,
                                                           today.month, today.year)]_vars

\* A code with no stored record got the record generated for the current
\* month from an unreachable storage layer, in a later month than the start.
C4_Witness ==
  /\ resp # None
  /\ resp.route = "performance"
  /\ resp.status = 200
  /\ resp.arg.districtCode = UnknownCode
  /\ ~dbUp
  /\ today # InitToday
  /\ resp.body = generateDistrictData(UnknownCode, today.month, today.year)

\* C5: an admitted location request is answered 400 exactly when lat or lng
\* is missing from the body.
C5_Rejects400OnlyWhenMissing ==
  resp # None =>
    (resp.route = "location" /\ resp.status # 429 =>
       (resp.status = 400 <=> ~({"lat", "lng"} \subseteq DOMAIN resp.arg)))

\* The list the location lookup scans: the cached list, else the rows of the
\* storage layer, else the static list when there are no rows.
ActiveList ==
  IF CacheHit(cache, DistrictsKey, now) THEN cache[DistrictsKey].v
  ELSE IF Len(districts) > 0 THEN SelectDistricts(districts)
  ELSE MAHARASHTRA_DISTRICTS

\* C6: the district of a 200 answer of the location lookup is an entry of the
\* active list, no entry is strictly nearer to the point, and every entry
\* before it in the list is strictly farther.
C6_NearestFirstOnTie ==
  [][Admitted("location") /\ resp'.status = 200
       => LET list == ActiveList
              dist(i) == getDistance(resp'.arg.lat, resp'.arg.lng,
                                     list[i].lat, list[i].lng)
          IN \E i \in 1..Len(list) :
               /\ resp'.body.district = list[i]
               /\ \A j \in 1..Len(list) : dist(j) >= dist(i)
               /\ \A j \in 1..(i - 1) : dist(j) > dist(i)]_vars

\* The point at the same distance from Pune and Raigad was answered with
\* Pune, from the list that an earlier districts request cached.
C6_Witness ==
  /\ resp # None
  /\ resp.route = "location"
  /\ resp.status = 200
  /\ resp.arg = [lat |-> 185200, lng |-> 734368]
  /\ resp.body.district.code = "PUN"
  /\ DistrictsKey \in DOMAIN cache
  /\ cache[DistrictsKey].v = SelectDistrictsByName(districts)

\* ------------------------------------------------------------ trends claims
\* The number of the month of a short name, 0 to 11.
MonthIndex(name) == CHOOSE m \in 0..11 : monthNames[m + 1] = name

\* The entries are in ascending order of (year, month).
Chronological(trends) ==
  \A p, q \in 1..Len(trends) :
    p < q => Later(trends[q].year, MonthIndex(trends[q].month),
                   trends[p].year, MonthIndex(trends[p].month))

\* What the claim expects for a code: the up-to-7 latest stored periods, or
\* the 7 generated entries up to the current month when none is stored.
ExpectedTrends(districtCode) ==
  LET rows == SelectTrendRows(performance, districtCode)
  IN IF Len(rows) >= 1 THEN StoredTrends(rows)
     ELSE SyntheticTrends(districtCode, today)

\* C14 as stated: a 200 answer of the trends route has 1 to 7 entries, oldest
\* first, which are the latest stored periods of the code, or the generated
\* entries of the current month and the six before it when none is stored.
C14_LatestPeriods ==
  [][Admitted("trends") /\ resp'.status = 200
       => /\ Len(resp'.body) \in 1..TrendLimit
          /\ Chronological(resp'.body)
          /\ resp'.body = ExpectedTrends(resp'.arg.districtCode)]_vars

\* C14: a 200 answer of the trends route has 1 to 7 entries, oldest first by
\* (year, month); with a live cache entry for the code it is the cached
\* answer, and without one it is the latest stored periods of the code, or
\* the generated entries of the current month and the six before it when
\* none is stored.
C14_LatestPeriodsOnMiss ==
  [][Admitted("trends") /\ resp'.status = 200
       => /\ Len(resp'.body) \in 1..TrendLimit
          /\ Chronological(resp'.body)
          /\ IF CacheHit(cache, TrendsKey(resp'.arg.districtCode), now)
               THEN resp'.body = cache[TrendsKey(resp'.arg.districtCode)].v
               ELSE resp'.body = ExpectedTrends(resp'.arg.districtCode)]_vars

\* A code with eight stored periods, the latest written by a refresh run in
\* a later month, was answered with seven entries that span two years and
\* end in the current month.
C14_Witness ==
  /\ resp # None
  /\ resp.route = "trends"
  /\ resp.status = 200
  /\ resp.arg.districtCode = "KOL"
  /\ today # InitToday
  /\ Cardinality({r \in BagToSet(performance) : r.district_code = "KOL"})
       = TrendLimit + 1
  /\ Len(resp.body) = TrendLimit
  /\ resp.body[TrendLimit].month = monthNames[today.month + 1]
  /\ resp.body[TrendLimit].year = today.year
  /\ resp.body[1].year < today.year

\* C15 as stated: the trends route answers 500 only on an error raised after
\* the choice between stored and generated entries was entered, that is
\* after its query succeeded; any other admitted request is answered 200.
C15_ErrorOnlyAfterBranch ==
  [][Admitted("trends")
       => /\ resp'.status \in {200, 500}
          /\ resp'.status = 500
               => /\ ~CacheHit(cache, TrendsKey(resp'.arg.districtCode), now)
                  /\ QueryOk("performance")]_vars

\* C15: an admitted trends request is answered 500, with an error message,
\* exactly when there is no live cache entry for the code and the query on
\* table performance fails; every other admitted trends request (cache hit,
\* stored rows, no stored rows) is answered 200.
C15_ErrorIffQueryFails ==
  [][Admitted("trends")
       => /\ resp'.status \in {200, 500}
          /\ resp'.status = 500
               <=> /\ ~CacheHit(cache, TrendsKey(resp'.arg.districtCode), now)
                   /\ ~QueryOk("performance")
          /\ resp'.status = 500
               => resp'.body = [error |-> "Failed to fetch trends"]]_vars

\* A trends request met an unreachable storage layer after the cache entry
\* of an earlier request had expired, and was answered 500.
C15_Witness ==
  /\ resp # None
  /\ resp.route = "trends"
  /\ resp.status = 500
  /\ ~dbUp
  /\ nreq = 2
  /\ now > TtlMs

\* -------------------------------------------------------------- cache claims
CachedRoutes == {"districts", "performance", "trends"}

\* The cache key a request of a cached route reads.
RouteKey(r) ==
  IF r.route = "districts" THEN DistrictsKey
  ELSE IF r.route = "performance" THEN PerfKey(r.arg.districtCode)
  ELSE TrendsKey(r.arg.districtCode)

\* The answer to request r computed from the storage layer as it is now,
\* without the cache.
FreshAnswer(r) ==
  IF r.route = "districts"
    THEN [status |-> 200,
          body |-> IF QueryOk("districts") /\ Len(districts) > 0
                     THEN SelectDistrictsByName(districts)
                     ELSE MAHARASHTRA_DISTRICTS]
  ELSE IF r.route = "performance"
    THEN [status |-> 200,
          body |-> IF NoRecordOrFailure(r.arg.districtCode)
                     THEN generateDistrictData(r.arg.districtCode, today.month,
                                               today.year)
                     ELSE SelectLatestData(performance, r.arg.districtCode)[1].data]
  ELSE IF QueryOk("performance")
    THEN [status |-> 200, body |-> ExpectedTrends(r.arg.districtCode)]
  ELSE [status |-> 500, body |-> [error |-> "Failed to fetch trends"]]

\* C16: an entry written by a handler expires one hour after its write; a
\* request that finds an entry written more than one hour before is answered
\* from the storage layer as it then is, never from that entry (so what a
\* refresh run wrote is served by /api/performance no later than one hour
\* after the cache write); an answer taken from the cache is at most one
\* hour old.
C16_ExpiresAfterTtl ==
  [][\A route \in CachedRoutes :
       Admitted(route)
         => LET key == RouteKey(resp')
                held == key \in DOMAIN cache
                written == IF key \in DOMAIN cache'
                             THEN IF held THEN cache'[key] # cache[key] ELSE TRUE
                             ELSE FALSE
            IN /\ written => cache'[key].t = now + TtlMs
               /\ key \in DOMAIN cache' => cache'[key].t >= now
               /\ IF held
                    THEN IF now > cache[key].t
                           THEN /\ resp'.status = FreshAnswer(resp').status
                                /\ resp'.body = FreshAnswer(resp').body
                           ELSE resp'.body = cache[key].v /\ ~written
                    ELSE /\ resp'.status = FreshAnswer(resp').status
                         /\ resp'.body = FreshAnswer(resp').body]_vars

\* /api/performance cached a record; more than an hour later, in the next
\* month and after a refresh run wrote that month's record, it answered with
\* the new record and cached it.
C16_Witness ==
  /\ resp # None
  /\ resp.route = "performance"
  /\ resp.arg.districtCode = "KOL"
  /\ nreq = 2
  /\ now = TtlMs + 1
  /\ today # InitToday
  /\ HasPeriod(performance, "KOL", today.month, today.year)
  /\ resp.body = generateDistrictData("KOL", today.month, today.year)
  /\ PerfKey("KOL") \in DOMAIN cache
  /\ cache[PerfKey("KOL")].t = now + TtlMs

\* --------------------------------------------------- storage-layer claims
\* Rows of a performance table for one (district_code, month, year).
PeriodRows(tbl, code, month, year) ==
  BagCardinality([r \in {x \in BagToSet(tbl) : SamePeriod(x, code, month, year)}
                    |-> tbl[r]])

\* No row is held twice, and no two rows have the same period.
OneRowPerPeriod(tbl) ==
  /\ \A r \in BagToSet(tbl) : tbl[r] = 1
  /\ Cardinality({<<r.district_code, r.month, r.year>> : r \in BagToSet(tbl)})
       = Cardinality(BagToSet(tbl))

\* A step of initDatabase other than its exit.
BootStep ==
  /\ boot.pc \in {"create_districts", "create_performance", "seed", "select",
                  "backfill"}
  /\ boot' # boot
  /\ boot'.pc # "exited"

\* Job j's upsert is executed by the storage layer in this step.
UpsertStep(j) ==
  /\ jobs[j].pc = "upsert"
  /\ jobs'[j] # jobs[j]
  /\ boot' = boot
  /\ QueryOk("performance")

\* The rows of a performance table without updated_at, with their number.
Proj(tbl) ==
  {[district_code |-> r.district_code, month |-> r.month, year |-> r.year,
    data |-> r.data, n |-> tbl[r]] : r \in BagToSet(tbl)}

\* C7: whatever the interleaving of initDatabase and refresh runs, table
\* performance holds at most one row per (district_code, month, year); an
\* upsert of the refresh job on an existing triple overwrites its row in
\* place and on a new triple inserts exactly one row.
C7_OneRecordPerPeriod ==
  [][/\ OneRowPerPeriod(performance')
     /\ \A j \in JobIds :
          UpsertStep(j) =>
            LET job == jobs[j]
                code == job.rows[job.i]
                row == PerformanceRow(code, job.at.month, job.at.year,
                         generateDistrictData(code, job.at.month, job.at.year),
                         now)
                was == HasPeriod(performance, code, job.at.month, job.at.year)
            IN /\ BagIn(row, performance')
               /\ BagCardinality(performance') =
                    BagCardinality(performance) + (IF was THEN 0 ELSE 1)
               /\ \A r \in BagToSet(performance) :
                    ~SamePeriod(r, code, job.at.month, job.at.year)
                      => BagIn(r, performance')]_vars

\* C7 witness: a refresh run begun after initDatabase had ended, whose every
\* upsert therefore met an existing row, has ended.
C7_Witness ==
  \E j \in JobIds :
    /\ jobs[j].pc = "done"
    /\ jobs[j].steady
    /\ jobs[j].rows # <<>>
    /\ BagCardinality(performance) = Len(districts) * (BackfillMonths + 1)

C9_RefreshIdempotent ==
  [][/\ fullRuns' >= 1 =>
          \A i \in 1..Len(districts') :
            \E r \in BagToSet(performance') :
              /\ SamePeriod(r, districts'[i].code, today'.month, today'.year)
              /\ r.data = generateDistrictData(r.district_code, r.month, r.year)
              /\ PeriodRows(performance', r.district_code, r.month, r.year) = 1
     /\ \A j \in JobIds :
          fullRuns >= 1 /\ UpsertStep(j) /\ jobs[j].steady
            /\ jobs[j].begun = today
            => Proj(performance') = Proj(performance)]_vars

\* C9 witness: two runs of one month, both begun before either had ended,
\* have ended.
C9_Witness ==
  /\ fullRuns = 2
  /\ \A j \in JobIds : jobs[j].pc = "done" /\ jobs[j].seen = 0

\* C18: the data of every row of table performance is what
\* generateDistrictData gives for the row's own district_code, month and
\* year, whether initDatabase or a refresh run wrote it: the table starts
\* empty and every row a step puts into it is such a row; so a row that an
\* upsert of a refresh run replaces is replaced by a row of the same period
\* with the same data.
C18_DataIsGenerated ==
  [][LET added == BagToSet(performance') \ BagToSet(performance)
         removed == BagToSet(performance) \ BagToSet(performance')
     IN /\ \A r \in added :
             r.data = generateDistrictData(r.district_code, r.month, r.year)
        /\ \A r \in removed :
             /\ \E j \in JobIds : UpsertStep(j)
             /\ \E q \in added :
                  /\ SamePeriod(q, r.district_code, r.month, r.year)
                  /\ q.data = r.data]_vars

\* C18 witness: in a month after the first start, a refresh run of the first
\* process has written that month's rows next to those of initDatabase.
C18_Witness ==
  /\ today # InitToday
  /\ ~boot.again
  /\ boot.pc = "listening"
  /\ fullRuns >= 1
  /\ \A i \in 1..Len(districts) :
       /\ HasPeriod(performance, districts[i].code, today.month, today.year)
       /\ HasPeriod(performance, districts[i].code, InitToday.month,
                    InitToday.year)

\* ------------------------------------------------------- process claims
\* What initDatabase has done when it resolves: both tables exist, every
\* entry of the directory it iterated is in table districts, and every
\* district of the table has its current and six preceding periods.
BootDone(tbls, ds, perf, seed, at) ==
  /\ {"districts", "performance"} \subseteq tbls
  /\ \A i \in 1..Len(seed) : HasDistrict(ds, seed[i].code)
  /\ \A i \in 1..Len(ds), k \in 0..BackfillMonths :
       LET d == MonthsBack(at, k)
       IN HasPeriod(perf, ds[i].code, d.month, d.year)

\* The order of the steps of initDatabase.
BootOrder ==
  {<<"create_districts", "create_performance">>, <<"create_performance", "seed">>,
   <<"seed", "seed">>, <<"seed", "select">>, <<"select", "backfill">>,
   <<"select", "listening">>, <<"backfill", "backfill">>,
   <<"backfill", "listening">>}

\* The query of the step initDatabase is at fails.
BootQueryFails ==
  CASE boot.pc \in {"create_districts", "create_performance"} -> ~dbUp
    [] boot.pc \in {"seed", "select"} -> ~QueryOk("districts")
    [] boot.pc = "backfill" -> ~QueryOk("performance")
    [] OTHER -> FALSE

\* C11: a request is answered only while the server listens, and it listens
\* only after initDatabase went through create tables, seed districts and
\* backfill in this order and, at the step that makes it listen, has
\* completed them; a step of initDatabase whose
\* query fails ends the process, which never listens and answers no request.
C11_ListenAfterBootstrap ==
  [][/\ resp' # resp => boot.pc = "listening" /\ boot'.pc = "listening"
     /\ boot'.pc # "listening" => resp' = None
     /\ (boot.pc # "listening" /\ boot'.pc = "listening") =>
          BootDone(tables', districts', performance', boot'.seed, today')
     /\ (boot' # boot /\ boot'.pc # "exited") =>
          /\ <<boot.pc, boot'.pc>> \in BootOrder
          /\ ~BootQueryFails
     /\ (boot' # boot /\ BootQueryFails) => boot'.pc = "exited"
     /\ boot.pc = "exited" => boot'.pc = "exited" /\ resp' = resp]_vars

\* C11 witness: a request answered from the storage layer by a process that
\* went through initDatabase while a cron run was under way.
C11_Witness ==
  /\ boot.pc = "listening"
  /\ resp # None
  /\ resp.status = 200
  /\ \E j \in JobIds : jobs[j].pc # "idle"
  /\ BootDone(tables, districts, performance, boot.seed, today)

\* A cron callback fires in this step and its SELECT answers with no row:
\* the run ends without error at once.
EmptyRun ==
  /\ events' = events + 1
  /\ today' = today
  /\ boot' = boot
  /\ QueryOk("districts")
  /\ SelectCodes(districts) = <<>>

\* C12: a refresh run that completes without error has upserted a record of
\* the current period for every district its SELECT returned, or, when table
\* districts is empty, for every district of the static list.
C12_CompletedRunCoversAll ==
  [][/\ \A j \in JobIds :
          (UpsertStep(j) /\ jobs'[j].pc = "done") =>
            \A i \in 1..Len(jobs[j].rows) :
              HasPeriod(performance', jobs[j].rows[i], today.month, today.year)
     /\ EmptyRun =>
          \A i \in 1..Len(MAHARASHTRA_DISTRICTS) :
            HasPeriod(performance', MAHARASHTRA_DISTRICTS[i].code,
                      today.month, today.year)]_vars

\* A cron callback fires in this step and its SELECT fails.
FireFails ==
  /\ events' = events + 1
  /\ today' = today
  /\ boot' = boot
  /\ ~QueryOk("districts")

\* The upsert job j is at fails in this step: the run ends in its catch.
UpsertFails(j) ==
  /\ jobs[j].pc = "upsert"
  /\ jobs'[j].pc = "done"
  /\ boot' = boot
  /\ ~QueryOk("performance")

\* C13: a refresh run that fails has executed no upsert (its loop is still
\* at the first district), and its failing step changes neither table
\* performance nor the process, the cache or the rate limiter; the job is
\* left ready to fire again.
C13_FailedRunUpdatesNothing ==
  [][/\ FireFails =>
          /\ performance' = performance
          /\ boot'.pc # "exited"
          /\ cache' = cache /\ rateLimit' = rateLimit
     /\ \A j \in JobIds :
          UpsertFails(j) =>
            /\ jobs[j].i = 1
            /\ performance' = performance
            /\ boot'.pc # "exited"
            /\ cache' = cache /\ rateLimit' = rateLimit]_vars

\* ----------------------------------------------- shared cache entry claims
\* C19: while the storage layer answers and its districts table has rows, a
\* districts request is answered with those rows ordered by name, whichever
\* handler wrote the 'districts' cache entry that is live at the request.
C19_DistrictsOrderedByName ==
  [][(Admitted("districts") /\ QueryOk("districts") /\ Len(districts) > 0)
       => resp'.body = SelectDistrictsByName(districts)]_vars

\* The entries of cache c a get at time t can return.
Live(c, t) ==
  LET keys == {k \in DOMAIN c : CacheHit(c, k, t)}
  IN [k \in keys |-> c[k]]

\* The table the query of a districts or performance request reads.
RouteTable(r) == IF r.route = "districts" THEN "districts" ELSE "performance"

\* C20: a districts or performance request that finds no live cache entry
\* and whose query fails is answered 200 with the static list or the record
\* generated for the current month, and writes nothing to the cache: no key
\* is added, no entry is replaced, the live entries are the same (the get
\* drops at most the expired entry of the request's own key), and the key
\* has no entry afterwards; such a request on a storage layer that answers
\* again is answered from the storage layer.
C20_FallbackNotCached ==
  [][\A route \in {"districts", "performance"} :
       (Admitted(route) /\ ~CacheHit(cache, RouteKey(resp'), now))
         => LET key == RouteKey(resp')
            IN IF QueryOk(RouteTable(resp'))
                 THEN /\ resp'.body = FreshAnswer(resp').body
                      /\ resp'.body = cache'[key].v
                 ELSE /\ resp'.status = 200
                      /\ resp'.body =
                           IF route = "districts" THEN MAHARASHTRA_DISTRICTS
                           ELSE generateDistrictData(resp'.arg.districtCode,
                                                     today.month, today.year)
                      /\ key \notin DOMAIN cache'
                      /\ DOMAIN cache' = DOMAIN cache \ {key}
                      /\ \A k \in DOMAIN cache' : cache'[k] = cache[k]
                      /\ Live(cache', now) = Live(cache, now)]_vars

\* C20 witness: /api/districts cached the rows; after the entry expired a
\* request on an unreachable storage layer got the static list, and the key
\* has no entry.
C20_Witness ==
  /\ resp # None
  /\ resp.route = "districts"
  /\ resp.status = 200
  /\ resp.body = MAHARASHTRA_DISTRICTS
  /\ ~dbUp
  /\ nreq = 2
  /\ now = TtlMs + 1
  /\ cache = <<>>

====
